---- MODULE Spec2Model ----
(***************************************************************************)
(* Crowdsourced store-layout confidence engine (routes/storeLayouts.js)    *)
(* and store-price propagation (routes/products.js) of smart-cart-api,     *)
(* modelled as a state machine over the relational tables they use.        *)
(*                                                                         *)
(* Confidence scores of the layout tables are DECIMAL(5,2) values that the *)
(* handlers only move in whole steps; they are integers here.              *)
(***************************************************************************)
EXTENDS Integers, Sequences, FiniteSets, Bags, TLC

VARIABLES
  db,      \* the layout tables
  proc,    \* the requests being served, one per slot
  now,     \* the clock, in hours
  budget,  \* layout requests that may still arrive
  conc,    \* how many requests the server is given at a time
  prices,  \* store_prices
  products,\* products (the barcode cache)
  req,     \* the price requests being served, one per slot
  pending, \* statements sent without await, not yet executed
  geo,     \* where each store is, in km north of the reference store
  direct,  \* history: the last direct price submitted over a propagated fact
  pbudget, \* price requests that may still arrive
  rw       \* user_rewards of one user, and the redeem requests being served

\* what the price routes leave alone, and what the layout routes leave alone;
\* neither touches user_rewards
lvars == <<db, proc, budget, rw>>
pvars == <<prices, products, req, pending, geo, direct, pbudget, rw>>
vars == <<db, proc, now, budget, conc, prices, products, req, pending, geo, direct, pbudget, rw>>

(***************************************************************************)
(* Bounds of the model                                                     *)
(***************************************************************************)
MaxOps == 2
MaxSeqOps == 3
MaxTicks == 2
MaxPriceOps == 2
MaxBacklog == 1
MaxRedeems == 3

(***************************************************************************)
(* Program constants                                                       *)
(***************************************************************************)
PV_aisle_scan == 50
PV_aisle_manual == 30
PV_aisle_confirm == 10
PV_data_report == 15
PV_first_store_bonus == 200
CONFIDENCE_INCREMENT == 5
CONFIDENCE_DECREMENT == 10
CONFIDENCE_INITIAL == 50
SCAN_EXTRA_INITIAL == 10
SCAN_EXTRA_INCREMENT == 5
CONFIDENCE_MAX == 100
CONFIDENCE_MIN == 0
RATE_LIMIT_HOURS == 24
MAPPED_MIN_CONFIDENCE == 50

Users == {"A", "B"}
Stores == {"s1"}
AisleNumbers == {"12"}
Procs == {1, 2}

(***************************************************************************)
(* Text: a string is a sequence of one-character strings                   *)
(***************************************************************************)
UpperOf == [c \in {"d", "y", "k", "r", "a", "l"} |->
              CASE c = "d" -> "D" [] c = "y" -> "Y" [] c = "k" -> "K"
                [] c = "r" -> "R" [] c = "a" -> "A" [] c = "l" -> "L"]

\* String.prototype.toLowerCase / SQL LOWER, one character
LowerChar(c) ==
  IF \E l \in DOMAIN UpperOf : UpperOf[l] = c
    THEN CHOOSE l \in DOMAIN UpperOf : UpperOf[l] = c
    ELSE c

toLowerCase(s) == [i \in 1..Len(s) |-> LowerChar(s[i])]

RECURSIVE trimStart(_)
trimStart(s) == IF s # <<>> /\ Head(s) = " " THEN trimStart(Tail(s)) ELSE s

RECURSIVE trimEnd(_)
trimEnd(s) ==
  IF s # <<>> /\ s[Len(s)] = " " THEN trimEnd(SubSeq(s, 1, Len(s) - 1)) ELSE s

\* String.prototype.trim
trim(s) == trimEnd(trimStart(s))

Dairy == <<"d", "y">>
DairyCap == <<"D", "y">>

\* department lists a request may carry (absent or empty, one name, a name twice)
DeptLists == {<<>>, <<DairyCap>>, <<Dairy, DairyCap>>}

\* department names matchDepartments can return: department_reference names,
\* de-duplicated
ScanDeptLists == {<<>>, <<Dairy>>}

(***************************************************************************)
(* Tables                                                                  *)
(***************************************************************************)
Least(a, b) == IF a < b THEN a ELSE b
Greatest(a, b) == IF a > b THEN a ELSE b

NoRow == 0

EmptyDB ==
  [ aisles   |-> {},        \* store_aisles: id, store, num, conf, vc
    depts    |-> {},        \* aisle_departments: id, aisle, name, conf, vc
    contribs |-> EmptyBag,  \* layout_contributions: store, user, aisle, type, at
    ptx      |-> EmptyBag,  \* point_transactions: user, points, reason, store
    upoints  |-> [u \in Users |-> [present |-> FALSE, total |-> 0, count |-> 0, level |-> 1]],
    stats    |-> [s \in Stores |-> [present |-> FALSE, total |-> 0, mapped |-> 0]],
    badges   |-> EmptyBag ] \* user_badges: user, type, store

LevelThresholds ==
  { <<1, 0>>, <<2, 100>>, <<3, 300>>, <<4, 600>>, <<5, 1000>>, <<6, 1500>>,
    <<7, 2500>>, <<8, 4000>>, <<9, 6000>>, <<10, 10000>> }

\* SELECT level FROM level_thresholds WHERE min_points <= p ORDER BY level DESC LIMIT 1
LevelFor(p) ==
  LET ok == {t \in LevelThresholds : t[2] <= p}
  IN CHOOSE l \in {t[1] : t \in ok} : \A t \in ok : t[1] <= l

\* awardPoints: insert the transaction record, upsert user_points, raise the level
awardPoints(d, u, points, reason, s) ==
  LET cur == d.upoints[u]
      tot == IF cur.present THEN cur.total + points ELSE points
      cnt == IF cur.present THEN cur.count + 1 ELSE 1
      lvl == Greatest(cur.level, LevelFor(tot))
  IN [d EXCEPT
        !.ptx = @ (+) SetToBag({[user |-> u, points |-> points, reason |-> reason, store |-> s]}),
        !.upoints[u] = [present |-> TRUE, total |-> tot, count |-> cnt, level |-> lvl]]

\* awardPoints up to its first statement only: the point_transactions row
awardPointsLedgerOnly(d, u, points, reason, s) ==
  [d EXCEPT
     !.ptx = @ (+) SetToBag({[user |-> u, points |-> points, reason |-> reason, store |-> s]})]

\* checkFirstStoreBonus: no contribution to the store by any other user
\* checkFirstStoreBonus that asks whether this is the contributor's own first
\* contribution to the store
checkFirstStoreBonusOwnFirst(d, u, s) ==
  BagCardinality([c \in {x \in BagToSet(d.contribs) : x.store = s /\ x.user = u}
                    |-> d.contribs[c]]) = 1

checkFirstStoreBonus(d, u, s) ==
  BagCardinality([c \in {x \in BagToSet(d.contribs) : x.store = s /\ x.user # u}
                    |-> d.contribs[c]]) = 0

\* updateStoreStats: recount the store's aisles
updateStoreStats(d, s) ==
  LET mine == {a \in d.aisles : a.store = s}
  IN [d EXCEPT !.stats[s] =
        [present |-> TRUE,
         total   |-> Cardinality({a.id : a \in mine}),
         mapped  |-> Cardinality({a.id : a \in {x \in mine : x.conf >= MAPPED_MIN_CONFIDENCE}})]]

NoStore == "none"

\* INSERT INTO user_badges ... ON CONFLICT (user_id, badge_type, store_id) DO NOTHING:
\* a NULL store_id never conflicts
InsertBadge(d, u, type, s) ==
  LET row == [user |-> u, type |-> type, store |-> s]
  IN IF s # NoStore /\ BagIn(row, d.badges)
       THEN d
       ELSE [d EXCEPT !.badges = @ (+) SetToBag({row})]

checkBadges(d, u, s) ==
  LET st == d.stats[s]
      d1 == IF st.present /\ st.total > 0 /\ 10 * st.mapped >= 8 * st.total
              THEN InsertBadge(d, u, "store_expert", s) ELSE d
      up == d.upoints[u]
      d2 == IF up.present /\ up.count = 1
              THEN InsertBadge(d1, u, "first_explorer", NoStore) ELSE d1
      d3 == IF up.present /\ up.count >= 10
              THEN InsertBadge(d2, u, "contributor_10", NoStore) ELSE d2
      d4 == IF up.present /\ up.count >= 50
              THEN InsertBadge(d3, u, "contributor_50", NoStore) ELSE d3
  IN d4

\* InsertContribution that writes no ledger row
InsertContributionSkipped(d, s, u, aisleId, type, t) == d

\* INSERT INTO layout_contributions
InsertContribution(d, s, u, aisleId, type, t) ==
  [d EXCEPT !.contribs = @ (+)
     SetToBag({[store |-> s, user |-> u, aisle |-> aisleId, type |-> type, at |-> t]})]

\* SELECT id FROM store_aisles WHERE store_id = s AND aisle_number = n
SelectAisle(d, s, n) ==
  IF \E a \in d.aisles : a.store = s /\ a.num = n
    THEN (CHOOSE a \in d.aisles : a.store = s /\ a.num = n).id
    ELSE NoRow

NewId(rows) == Cardinality(rows) + 1

\* BoostAisle without the LEAST(..., 100)
BoostAisleUnclamped(d, aisleId, inc) ==
  [d EXCEPT !.aisles =
     {IF a.id = aisleId
        THEN [a EXCEPT !.conf = a.conf + inc, !.vc = a.vc + 1]
        ELSE a : a \in d.aisles}]

\* UPDATE store_aisles SET confidence_score = LEAST(confidence_score + inc, 100),
\*   verified_count = verified_count + 1 WHERE id = aisleId
BoostAisle(d, aisleId, inc) ==
  [d EXCEPT !.aisles =
     {IF a.id = aisleId
        THEN [a EXCEPT !.conf = Least(a.conf + inc, CONFIDENCE_MAX), !.vc = a.vc + 1]
        ELSE a : a \in d.aisles}]

\* UPDATE store_aisles SET confidence_score = GREATEST(confidence_score - dec, 0)
ReduceAisle(d, aisleId, dec) ==
  [d EXCEPT !.aisles =
     {IF a.id = aisleId
        THEN [a EXCEPT !.conf = Greatest(a.conf - dec, CONFIDENCE_MIN)]
        ELSE a : a \in d.aisles}]

\* position_index INTEGER, nullable: NULL when the request carries no positionIndex
NoPos == 0 - 1

\* positionIndex of the request body of POST /:storeId/aisles
Positions == {NoPos, 1}

\* INSERT INTO store_aisles (..., position_index, ...): the row of a new aisle;
\* verified_count defaults to 1
InsertAisleAt(d, s, n, pos, conf) ==
  [d EXCEPT !.aisles = @ \cup
     {[id |-> NewId(d.aisles), store |-> s, num |-> n, pos |-> pos,
       conf |-> conf, vc |-> 1]}]

\* INSERT INTO store_aisles without position_index (the scan route): it stays NULL
InsertAisle(d, s, n, conf) == InsertAisleAt(d, s, n, NoPos, conf)

AisleConflictUnchecked(d, s, n) == FALSE

\* UNIQUE(store_id, aisle_number)
AisleConflict(d, s, n) == \E a \in d.aisles : a.store = s /\ a.num = n

\* INSERT INTO aisle_departments ... ON CONFLICT (aisle_id, department_name) DO UPDATE
UpsertDepartment(d, aisleId, name, init, inc) ==
  IF \E r \in d.depts : r.aisle = aisleId /\ r.name = name
    THEN [d EXCEPT !.depts =
            {IF r.aisle = aisleId /\ r.name = name
               THEN [r EXCEPT !.conf = Least(r.conf + inc, CONFIDENCE_MAX), !.vc = r.vc + 1]
               ELSE r : r \in d.depts}]
    ELSE [d EXCEPT !.depts = @ \cup
            {[id |-> NewId(d.depts), aisle |-> aisleId, name |-> name, conf |-> init, vc |-> 1]}]

\* UPDATE aisle_departments SET confidence_score = LEAST(...), verified_count + 1
\*   WHERE aisle_id = aisleId AND department_name = name
BoostDepartment(d, aisleId, name) ==
  [d EXCEPT !.depts =
     {IF r.aisle = aisleId /\ r.name = name
        THEN [r EXCEPT !.conf = Least(r.conf + CONFIDENCE_INCREMENT, CONFIDENCE_MAX), !.vc = r.vc + 1]
        ELSE r : r \in d.depts}]

\* ... WHERE aisle_id = aisleId
BoostAllDepartments(d, aisleId) ==
  [d EXCEPT !.depts =
     {IF r.aisle = aisleId
        THEN [r EXCEPT !.conf = Least(r.conf + CONFIDENCE_INCREMENT, CONFIDENCE_MAX), !.vc = r.vc + 1]
        ELSE r : r \in d.depts}]

\* UPDATE aisle_departments SET confidence_score = GREATEST(confidence_score - dec, 0)
\*   WHERE aisle_id = aisleId
ReduceAllDepartments(d, aisleId) ==
  [d EXCEPT !.depts =
     {IF r.aisle = aisleId
        THEN [r EXCEPT !.conf = Greatest(r.conf - CONFIDENCE_DECREMENT, CONFIDENCE_MIN)]
        ELSE r : r \in d.depts}]

(***************************************************************************)
(* The database transactions of the four contribution handlers.  Each runs *)
(* under READ COMMITTED and its first write locks the aisle row, so the    *)
(* writes of one transaction are one step for every other transaction on   *)
(* the same aisle.                                                         *)
(***************************************************************************)
RECURSIVE ManualDepartments(_, _, _)
ManualDepartments(d, aisleId, depts) ==
  IF depts = <<>> THEN d
  ELSE ManualDepartments(
         UpsertDepartment(d, aisleId, trim(toLowerCase(Head(depts))),
                          CONFIDENCE_INITIAL, CONFIDENCE_INCREMENT),
         aisleId, Tail(depts))

\* POST /:storeId/aisles, the INSERT raises a unique violation
ManualTxnFails(d, s, n, existing) == existing = NoRow /\ AisleConflict(d, s, n)

\* POST /:storeId/aisles, transaction body after the SELECT returned `existing`
ManualTxn(d, u, s, n, depts, pos, existing, t) ==
  LET aisleId == IF existing # NoRow THEN existing ELSE NewId(d.aisles)
      d1 == IF existing # NoRow
              THEN BoostAisle(d, existing, CONFIDENCE_INCREMENT)
              ELSE InsertAisleAt(d, s, n, pos, CONFIDENCE_INITIAL)
  IN InsertContribution(ManualDepartments(d1, aisleId, depts), s, u, aisleId, "manual", t)

RECURSIVE ScanDepartments(_, _, _)
ScanDepartments(d, aisleId, depts) ==
  IF depts = <<>> THEN d
  ELSE ScanDepartments(
         UpsertDepartment(d, aisleId, Head(depts),
                          CONFIDENCE_INITIAL + SCAN_EXTRA_INITIAL,
                          CONFIDENCE_INCREMENT + SCAN_EXTRA_INCREMENT),
         aisleId, Tail(depts))

\* ScanUpsertAisle that creates the aisle at CONFIDENCE_INITIAL
ScanUpsertAislePlainInitial(d, s, n) ==
  IF AisleConflict(d, s, n)
    THEN BoostAisle(d, SelectAisle(d, s, n), CONFIDENCE_INCREMENT + SCAN_EXTRA_INCREMENT)
    ELSE InsertAisle(d, s, n, CONFIDENCE_INITIAL)

\* POST /:storeId/aisles/scan, INSERT ... ON CONFLICT (store_id, aisle_number) DO UPDATE
ScanUpsertAisle(d, s, n) ==
  IF AisleConflict(d, s, n)
    THEN BoostAisle(d, SelectAisle(d, s, n), CONFIDENCE_INCREMENT + SCAN_EXTRA_INCREMENT)
    ELSE InsertAisle(d, s, n, CONFIDENCE_INITIAL + SCAN_EXTRA_INITIAL)

ScanTxn(d, u, s, n, depts, t) ==
  LET d1 == ScanUpsertAisle(d, s, n)
      aisleId == SelectAisle(d1, s, n)
  IN InsertContribution(ScanDepartments(d1, aisleId, depts), s, u, aisleId, "scan", t)

RECURSIVE ConfirmDepartments(_, _, _)
ConfirmDepartments(d, aisleId, depts) ==
  IF depts = <<>> THEN d
  ELSE ConfirmDepartments(BoostDepartment(d, aisleId, toLowerCase(Head(depts))),
                          aisleId, Tail(depts))

\* POST /:storeId/aisles/:aisleId/confirm, transaction
ConfirmTxn(d, u, s, aisleId, depts, t) ==
  LET d1 == BoostAisle(d, aisleId, CONFIDENCE_INCREMENT)
      d2 == IF Len(depts) > 0
              THEN ConfirmDepartments(d1, aisleId, depts)
              ELSE BoostAllDepartments(d1, aisleId)
  IN InsertContribution(d2, s, u, aisleId, "confirm", t)

RECURSIVE ReportDepartments(_, _, _)
ReportDepartments(d, aisleId, depts) ==
  IF depts = <<>> THEN d
  ELSE ReportDepartments(
         UpsertDepartment(d, aisleId, toLowerCase(Head(depts)),
                          CONFIDENCE_INITIAL, CONFIDENCE_INCREMENT),
         aisleId, Tail(depts))

\* POST /:storeId/aisles/:aisleId/report, transaction; `has` is
\* correctData && correctData.departments (an empty list is truthy)
ReportTxn(d, u, s, aisleId, has, depts, t) ==
  LET d1 == ReduceAisle(d, aisleId, CONFIDENCE_DECREMENT)
      d2 == IF has
              THEN ReportDepartments(ReduceAllDepartments(d1, aisleId), aisleId, depts)
              ELSE d1
  IN InsertContribution(d2, s, u, aisleId, "report", t)

\* SELECT id FROM store_aisles WHERE id = aisleId AND store_id = s
AisleExists(d, aisleId, s) == \E a \in d.aisles : a.id = aisleId /\ a.store = s

\* RecentConfirm with a window of 12 hours
RecentConfirmHalfWindow(d, u, s, aisleId, t) ==
  \E c \in BagToSet(d.contribs) :
     /\ c.store = s /\ c.user = u /\ c.aisle = aisleId /\ c.type = "confirm"
     /\ c.at > t - (RATE_LIMIT_HOURS \div 2)

\* SELECT id FROM layout_contributions WHERE ... contribution_type = 'confirm'
\*   AND created_at > NOW() - INTERVAL '24 hours'
RecentConfirm(d, u, s, aisleId, t) ==
  \E c \in BagToSet(d.contribs) :
     /\ c.store = s /\ c.user = u /\ c.aisle = aisleId /\ c.type = "confirm"
     /\ c.at > t - RATE_LIMIT_HOURS

PointsFor(kind) ==
  CASE kind = "manual"  -> PV_aisle_manual
    [] kind = "scan"    -> PV_aisle_scan
    [] kind = "confirm" -> PV_aisle_confirm
    [] kind = "report"  -> PV_data_report

ReasonFor(kind) ==
  CASE kind = "manual"  -> "aisle_manual"
    [] kind = "scan"    -> "aisle_scan"
    [] kind = "confirm" -> "aisle_confirm"
    [] kind = "report"  -> "data_report"

\* what a handler does after its transaction committed, run without interruption
AfterTxn(d, kind, u, s) ==
  LET d1 == awardPoints(d, u, PointsFor(kind), ReasonFor(kind), s)
  IN IF kind \in {"manual", "scan"}
       THEN LET d2 == IF checkFirstStoreBonus(d1, u, s)
                        THEN awardPoints(d1, u, PV_first_store_bonus, "first_store_bonus", s)
                        ELSE d1
            IN checkBadges(updateStoreStats(d2, s), u, s)
       ELSE updateStoreStats(d1, s)

(***************************************************************************)
(* GET /:storeId, the layout listing                                       *)
(***************************************************************************)
\* WHERE ... sa.confidence_score >= 20
LISTING_MIN_CONFIDENCE == 20

\* the text order of ORDER BY is the database's collation: byte order ("C") or a
\* dictionary order that looks at case last ("en_US")
Collations == {"C", "en_US"}

CharCode ==
  [c \in {"0", "1", "2", "D", "Y", "K", "R", "A", "L", "d", "y", "k", "r", "a", "l"} |->
     CASE c = "0" -> 48 [] c = "1" -> 49 [] c = "2" -> 50
       [] c = "A" -> 65 [] c = "D" -> 68 [] c = "K" -> 75
       [] c = "L" -> 76 [] c = "R" -> 82 [] c = "Y" -> 89
       [] c = "a" -> 97 [] c = "d" -> 100 [] c = "k" -> 107
       [] c = "l" -> 108 [] c = "r" -> 114 [] c = "y" -> 121]

\* aisle_number VARCHAR(10), written by aisleNumber.toString(): its characters
DigitsOf == [n \in {"10", "12", "2"} |->
               CASE n = "10" -> <<"1", "0">> [] n = "12" -> <<"1", "2">> [] n = "2" -> <<"2">>]

AsciiOf(t) == [i \in 1..Len(t) |-> CharCode[t[i]]]
FoldedOf(t) == AsciiOf(toLowerCase(t))
CaseOf(t) == [i \in 1..Len(t) |-> IF t[i] = LowerChar(t[i]) THEN 0 ELSE 1]

\* x sorts strictly before y, key by key; a prefix sorts first
RECURSIVE SeqBefore(_, _)
SeqBefore(x, y) ==
  IF y = <<>> THEN FALSE
  ELSE IF x = <<>> THEN TRUE
  ELSE Head(x) < Head(y) \/ (Head(x) = Head(y) /\ SeqBefore(Tail(x), Tail(y)))

\* ascending text order of two VARCHAR values
TextBefore(coll, x, y) ==
  IF coll = "C"
    THEN SeqBefore(AsciiOf(x), AsciiOf(y))
    ELSE \/ SeqBefore(FoldedOf(x), FoldedOf(y))
         \/ FoldedOf(x) = FoldedOf(y) /\ SeqBefore(CaseOf(x), CaseOf(y))

\* the department columns of a row of the LEFT JOIN whose aisle has no department
NoDept == [id |-> NoRow, aisle |-> NoRow, name |-> <<>>, conf |-> 0, vc |-> 0]

\* FROM store_aisles sa LEFT JOIN aisle_departments ad ON sa.id = ad.aisle_id
\* WHERE sa.store_id = $1 AND sa.confidence_score >= 20
JoinRows(d, s) ==
  LET shown == {a \in d.aisles : a.store = s /\ a.conf >= LISTING_MIN_CONFIDENCE}
      DeptsOf(a) == {r \in d.depts : r.aisle = a.id}
  IN UNION {IF DeptsOf(a) = {}
              THEN {[aisle |-> a, dept |-> NoDept]}
              ELSE {[aisle |-> a, dept |-> r] : r \in DeptsOf(a)} : a \in shown}

\* sa.position_index NULLS LAST
PositionBefore(a, b) == a.pos # NoPos /\ (b.pos = NoPos \/ a.pos < b.pos)

\* RowBefore that leaves sa.position_index out of the ORDER BY
RowBeforeByNumber(coll, x, y) ==
  \/ TextBefore(coll, DigitsOf[x.aisle.num], DigitsOf[y.aisle.num])
  \/ /\ x.aisle.num = y.aisle.num
     /\ x.dept # NoDept
     /\ (y.dept = NoDept \/ TextBefore(coll, x.dept.name, y.dept.name))

\* ORDER BY sa.position_index NULLS LAST, sa.aisle_number, ad.department_name
RowBefore(coll, x, y) ==
  \/ PositionBefore(x.aisle, y.aisle)
  \/ /\ x.aisle.pos = y.aisle.pos
     /\ \/ TextBefore(coll, DigitsOf[x.aisle.num], DigitsOf[y.aisle.num])
        \/ /\ x.aisle.num = y.aisle.num
           /\ x.dept # NoDept
           /\ (y.dept = NoDept \/ TextBefore(coll, x.dept.name, y.dept.name))

\* aislesResult.rows
RECURSIVE OrderBy(_, _)
OrderBy(coll, rows) ==
  IF rows = {} THEN <<>>
  ELSE LET first == CHOOSE x \in rows : \A y \in rows \ {x} : ~RowBefore(coll, y, x)
       IN <<first>> \o OrderBy(coll, rows \ {first})

\* one turn of the grouping loop: aislesMap and each aisle's departments are
\* objects keyed by UUID, so Object.values yields them in insertion order
GroupRow(out, row) ==
  LET out1 == IF \E i \in 1..Len(out) : out[i].id = row.aisle.id
                THEN out
                ELSE Append(out, [id |-> row.aisle.id, aisleNumber |-> row.aisle.num,
                                  positionIndex |-> row.aisle.pos,
                                  confidence |-> row.aisle.conf,
                                  verifiedCount |-> row.aisle.vc,
                                  departments |-> <<>>])
      k == CHOOSE i \in 1..Len(out1) : out1[i].id = row.aisle.id
      held == out1[k].departments
  IN IF row.dept # NoDept /\ \A j \in 1..Len(held) : held[j].id # row.dept.id
       THEN [out1 EXCEPT ![k].departments =
               Append(@, [id |-> row.dept.id, name |-> row.dept.name,
                          confidence |-> row.dept.conf])]
       ELSE out1

RECURSIVE GroupRows(_, _)
GroupRows(out, rows) ==
  IF rows = <<>> THEN out ELSE GroupRows(GroupRow(out, Head(rows)), Tail(rows))

\* the aisles of the response of GET /:storeId
GetLayout(d, s, coll) == GroupRows(<<>>, OrderBy(coll, JoinRows(d, s)))

\* whole requests, run alone
RunManualAt(d, u, s, n, depts, pos, t) ==
  AfterTxn(ManualTxn(d, u, s, n, depts, pos, SelectAisle(d, s, n), t), "manual", u, s)
RunManual(d, u, s, n, depts, t) == RunManualAt(d, u, s, n, depts, NoPos, t)
RunScan(d, u, s, n, depts, t) == AfterTxn(ScanTxn(d, u, s, n, depts, t), "scan", u, s)
RunReport(d, u, s, aisleId, has, depts, t) ==
  AfterTxn(ReportTxn(d, u, s, aisleId, has, depts, t), "report", u, s)

RECURSIVE Repeat(_, _, _)
Repeat(Op(_), k, d) == IF k = 0 THEN d ELSE Repeat(Op, k - 1, Op(d))

(***************************************************************************)
(* Starting states: an unmapped store, and two stores mapped earlier (at   *)
(* time 0) whose aisle is close to the upper and to the lower end of the   *)
(* confidence scale.                                                       *)
(***************************************************************************)
SeedTime == 0

SeedHigh ==
  LET scanA(d) == RunScan(d, "A", "s1", "12", <<Dairy>>, SeedTime)
  IN RunManual(Repeat(scanA, 4, EmptyDB), "B", "s1", "12", <<>>, SeedTime)

SeedLow ==
  LET d1 == RunManual(EmptyDB, "A", "s1", "12", <<Dairy>>, SeedTime)
      reportB(d) == RunReport(d, "B", "s1", 1, TRUE, <<>>, SeedTime)
  IN RunManual(Repeat(reportB, 5, d1), "B", "s1", "12", <<>>, SeedTime)

Seeds == {EmptyDB, SeedHigh, SeedLow}

Deli == <<"d", "a">>

\* a store after a manual entry of aisle 2 without a position, a scan of aisle 10
\* and a manual entry of aisle 12 at position 1 with two departments
SeedAisles ==
  LET d1 == RunManualAt(EmptyDB, "A", "s1", "2", <<>>, NoPos, SeedTime)
      d2 == RunScan(d1, "A", "s1", "10", <<Dairy>>, SeedTime)
  IN RunManualAt(d2, "A", "s1", "12", <<Dairy, Deli>>, 1, SeedTime)

(***************************************************************************)
(* Requests.  Every request runs on its own; proc[p] is the position and   *)
(* the local variables of the request that slot p is serving.              *)
(***************************************************************************)
\* aisle ids a confirm or report request may name
AisleIds == {1}

\* correctData of a report: absent, or a list of replacement departments
CorrectData ==
  {[has |-> FALSE, depts |-> <<>>]} \cup {[has |-> TRUE, depts |-> l] : l \in DeptLists}

\* the clock starts a full rate-limit window after the seeds and moves in half windows
StartNow == SeedTime + RATE_LIMIT_HOURS
TickHours == RATE_LIMIT_HOURS \div 2

Idle ==
  [pc |-> "idle", kind |-> "none", user |-> "none", store |-> "none", num |-> "none",
   aisle |-> NoRow, depts |-> <<>>, pos |-> NoPos, has |-> FALSE, existing |-> NoRow,
   isNew |-> FALSE, bonus |-> FALSE, status |-> 0]

Busy(p) == proc[p].pc \notin {"idle", "done"}

\* a request is given the lowest free slot
Free(p) ==
  /\ ~Busy(p)
  /\ budget > 0
  /\ p <= conc
  /\ \A q \in Procs : q < p => Busy(q)

\* the response ends the request; only its kind and status code are kept
Respond(p, code) ==
  proc' = [proc EXCEPT ![p] = [Idle EXCEPT !.pc = "done", !.kind = proc[p].kind, !.status = code]]

\* POST /:storeId/aisles up to the SELECT inside the transaction
ManualSelect(p, u, s, n, depts, pos) ==
  /\ Free(p)
  /\ proc' = [proc EXCEPT ![p] =
       [Idle EXCEPT !.pc = "m_txn", !.kind = "manual", !.user = u, !.store = s,
                    !.num = n, !.depts = depts, !.pos = pos,
                    !.existing = SelectAisle(db, s, n)]]
  /\ budget' = budget - 1
  /\ UNCHANGED <<db, now, conc, pvars>>

\* ... the rest of the transaction and COMMIT, or the unique violation, ROLLBACK
\* and the 500 of the catch block
ManualCommit(p) ==
  LET r == proc[p]
  IN /\ r.pc = "m_txn"
     /\ IF ManualTxnFails(db, r.store, r.num, r.existing)
          THEN /\ Respond(p, 500)
               /\ UNCHANGED db
          ELSE /\ db' = ManualTxn(db, r.user, r.store, r.num, r.depts, r.pos,
                                   r.existing, now)
               /\ proc' = [proc EXCEPT ![p].pc = "award", ![p].pos = NoPos,
                             ![p].isNew = (r.existing = NoRow),
                             ![p].aisle = IF r.existing # NoRow THEN r.existing
                                          ELSE NewId(db.aisles)]
     /\ UNCHANGED <<now, budget, conc, pvars>>

\* POST /:storeId/aisles/scan through COMMIT
ScanCommit(p, u, s, n, depts) ==
  /\ Free(p)
  /\ db' = ScanTxn(db, u, s, n, depts, now)
  /\ proc' = [proc EXCEPT ![p] =
       [Idle EXCEPT !.pc = "award", !.kind = "scan", !.user = u, !.store = s,
                    !.num = n, !.depts = depts, !.isNew = ~AisleConflict(db, s, n),
                    !.aisle = SelectAisle(db', s, n)]]
  /\ budget' = budget - 1
  /\ UNCHANGED <<now, conc, pvars>>

\* POST /:storeId/aisles/:aisleId/confirm: the aisle check and the 24 hour check
ConfirmCheck(p, u, s, aisleId, depts) ==
  /\ Free(p)
  /\ proc' = [proc EXCEPT ![p] =
       IF ~AisleExists(db, aisleId, s)
         THEN [Idle EXCEPT !.pc = "done", !.kind = "confirm", !.status = 404]
       ELSE IF RecentConfirm(db, u, s, aisleId, now)
         THEN [Idle EXCEPT !.pc = "done", !.kind = "confirm", !.user = u, !.store = s,
                           !.aisle = aisleId, !.status = 429]
       ELSE [Idle EXCEPT !.pc = "c_txn", !.kind = "confirm", !.user = u, !.store = s,
                         !.aisle = aisleId, !.depts = depts]]
  /\ budget' = budget - 1
  /\ UNCHANGED <<db, now, conc, pvars>>

\* ... its transaction
ConfirmCommit(p) ==
  LET r == proc[p]
  IN /\ r.pc = "c_txn"
     /\ db' = ConfirmTxn(db, r.user, r.store, r.aisle, r.depts, now)
     /\ proc' = [proc EXCEPT ![p].pc = "award"]
     /\ UNCHANGED <<now, budget, conc, pvars>>

\* POST /:storeId/aisles/:aisleId/report through COMMIT
ReportCommit(p, u, s, aisleId, has, depts) ==
  /\ Free(p)
  /\ IF AisleExists(db, aisleId, s)
       THEN /\ db' = ReportTxn(db, u, s, aisleId, has, depts, now)
            /\ proc' = [proc EXCEPT ![p] =
                 [Idle EXCEPT !.pc = "award", !.kind = "report", !.user = u, !.store = s,
                              !.aisle = aisleId, !.has = has, !.depts = depts]]
       ELSE /\ proc' = [proc EXCEPT ![p] =
                 [Idle EXCEPT !.pc = "done", !.kind = "report", !.status = 404]]
            /\ UNCHANGED db
  /\ budget' = budget - 1
  /\ UNCHANGED <<now, conc, pvars>>

\* awardPoints(req.user.id, POINT_VALUES[kind], ...)
Award(p) ==
  LET r == proc[p]
  IN /\ r.pc = "award"
     /\ db' = awardPoints(db, r.user, PointsFor(r.kind), ReasonFor(r.kind), r.store)
     /\ proc' = [proc EXCEPT ![p].pc =
                   IF r.kind \in {"manual", "scan"} THEN "bonus_check" ELSE "finish"]
     /\ UNCHANGED <<now, budget, conc, pvars>>

\* a statement of awardPoints throws (the statements are not in a
\* transaction): the handler's catch answers 500 although its own
\* transaction has committed
FailStages == {"ledger", "points"}

AwardFails(p, stage) ==
  LET r == proc[p]
  IN /\ r.pc = "award"
     /\ db' = IF stage = "ledger" THEN db
              ELSE awardPointsLedgerOnly(db, r.user, PointsFor(r.kind), ReasonFor(r.kind), r.store)
     /\ Respond(p, 500)
     /\ UNCHANGED <<now, budget, conc, pvars>>

\* if (await checkFirstStoreBonus(...))
BonusCheck(p) ==
  LET r == proc[p]
  IN /\ r.pc = "bonus_check"
     /\ proc' = [proc EXCEPT
                   ![p].bonus = checkFirstStoreBonus(db, r.user, r.store),
                   ![p].pc = IF checkFirstStoreBonus(db, r.user, r.store)
                               THEN "bonus_award" ELSE "finish"]
     /\ UNCHANGED <<db, now, budget, conc, pvars>>

\* await awardPoints(..., 'first_store_bonus', ...)
BonusAward(p) ==
  LET r == proc[p]
  IN /\ r.pc = "bonus_award"
     /\ db' = awardPoints(db, r.user, PV_first_store_bonus, "first_store_bonus", r.store)
     /\ proc' = [proc EXCEPT ![p].pc = "finish"]
     /\ UNCHANGED <<now, budget, conc, pvars>>

\* updateStoreStats, checkBadges (manual and scan only) and the success response
Finish(p) ==
  LET r == proc[p]
  IN /\ r.pc = "finish"
     /\ db' = IF r.kind \in {"manual", "scan"}
                THEN checkBadges(updateStoreStats(db, r.store), r.user, r.store)
                ELSE updateStoreStats(db, r.store)
     /\ Respond(p, IF r.kind \in {"manual", "scan"} THEN 201 ELSE 200)
     /\ UNCHANGED <<now, budget, conc, pvars>>

\* time passes
Tick ==
  /\ now < StartNow + MaxTicks * TickHours
  /\ now' = now + TickHours
  /\ UNCHANGED <<db, proc, budget, conc, pvars>>

(***************************************************************************)
(* Store prices (routes/products.js): stores, distances, the tables        *)
(***************************************************************************)
Barcodes == {"b1"}

\* stores.name of the four stores: three of one chain in different
\* spellings, and one whose first word only begins like the chain's
StoreName ==
  [s \in {"T", "S1", "S2", "O"} |->
     CASE s = "T"  -> <<"K", "r", " ", "a">>
       [] s = "S1" -> <<"k", "r", " ", "d">>
       [] s = "S2" -> <<"K", "R", " ", "l">>
       [] s = "O"  -> <<"K", "r", "a", " ", "K", "r">>]

PriceStores == DOMAIN StoreName

\* SPLIT_PART(name, ' ', 1)
RECURSIVE SplitPart1(_)
SplitPart1(s) ==
  IF s = <<>> \/ Head(s) = " " THEN <<>> ELSE <<Head(s)>> \o SplitPart1(Tail(s))

SameChain(a, b) ==
  toLowerCase(SplitPart1(StoreName[a])) = toLowerCase(SplitPart1(StoreName[b]))

\* The stores lie on one meridian, so the great-circle distance of the
\* query is the difference of their positions along it.
Abs(x) == IF x < 0 THEN 0 - x ELSE x
DistKm(g, a, b) == Abs(g[a] - g[b])

Geo(s1, s2) == [s \in PriceStores |->
                  CASE s = "T" -> 0 [] s = "S1" -> s1 [] s = "S2" -> s2 [] s = "O" -> 5]

BAND_NEAR_KM == 16
BAND_MID_KM == 48
BAND_FAR_KM == 160
CONF_NEAR == 95
CONF_MID == 85
CONF_FAR == 70
FRESH_HOURS == 14 * 24

\* confidence is stored in hundredths; NULL where the statement names no
\* confidence, and read back as 1.00 (`confidence ?? 1.00`)
NullConf == 0 - 1
CONF_UNSET == 100

BandInclusive(distKm) ==
  IF distKm >= BAND_FAR_KM THEN 0
  ELSE IF distKm >= BAND_MID_KM THEN CONF_FAR
  ELSE IF distKm >= BAND_NEAR_KM THEN CONF_MID
  ELSE CONF_NEAR

\* the confidence decay of a propagated price
Band(distKm) ==
  IF distKm > BAND_FAR_KM THEN 0
  ELSE IF distKm > BAND_MID_KM THEN CONF_FAR
  ELSE IF distKm > BAND_NEAR_KM THEN CONF_MID
  ELSE CONF_NEAR

NoPrice == 0

PriceRow(id, s, b, p, src, c, from, t) ==
  [id |-> id, store |-> s, barcode |-> b, price |-> p, source |-> src,
   conf |-> c, from |-> from, at |-> t]

PriceRowsOf(ps, s, b) == {r \in ps : r.store = s /\ r.barcode = b}

\* INSERT ... ON CONFLICT (store_id, barcode) DO UPDATE SET price, source,
\* updated_at: confidence and propagated_from keep what the row had
UpsertPrice(ps, s, b, p, src, t) ==
  IF PriceRowsOf(ps, s, b) # {}
    THEN {IF r.store = s /\ r.barcode = b
            THEN [r EXCEPT !.price = p, !.source = src, !.at = t]
            ELSE r : r \in ps}
    ELSE ps \cup {PriceRow(NewId(ps), s, b, p, src, NullConf, NoStore, t)}

InsertPropagatedOverwriting(ps, s, b, p, from, c, t) ==
  IF PriceRowsOf(ps, s, b) # {}
    THEN {IF r.store = s /\ r.barcode = b
            THEN [r EXCEPT !.price = p, !.source = "propagated", !.conf = c,
                           !.from = from, !.at = t]
            ELSE r : r \in ps}
    ELSE ps \cup {PriceRow(NewId(ps), s, b, p, "propagated", c, from, t)}

\* INSERT ... 'propagated' ... ON CONFLICT (store_id, barcode) DO NOTHING
InsertPropagated(ps, s, b, p, from, c, t) ==
  IF PriceRowsOf(ps, s, b) # {}
    THEN ps
    ELSE ps \cup {PriceRow(NewId(ps), s, b, p, "propagated", c, from, t)}

\* the rows of the nearbyChain query before ORDER BY and LIMIT
NearbyIgnoringAge(ps, g, s, b, t) ==
  {r \in ps : /\ r.barcode = b
              /\ r.store # s
              /\ SameChain(r.store, s)}

NearbyChainRows(ps, g, s, b, t) ==
  {r \in ps : /\ r.barcode = b
              /\ r.store # s
              /\ SameChain(r.store, s)
              /\ r.at > t - FRESH_HOURS}

\* ORDER BY distance_km ASC LIMIT 1: the rows one of which is returned
NearbyChain(ps, g, s, b, t) ==
  LET rows == NearbyChainRows(ps, g, s, b, t)
  IN {r \in rows : \A o \in rows : DistKm(g, s, r.store) <= DistKm(g, s, o.store)}

\* ORDER BY updated_at DESC LIMIT 1 over every store's price of the barcode
AnyStore(ps, b) ==
  LET rows == {r \in ps : r.barcode = b}
  IN {r \in rows : \A o \in rows : r.at >= o.at}

(***************************************************************************)
(* Store prices: the statements on products and the deferred statements    *)
(***************************************************************************)
NoProduct == [present |-> FALSE, price |-> NoPrice]

\* batch-price: INSERT INTO products ... ON CONFLICT (barcode) DO UPDATE.
\* products.name is NOT NULL: without a name the statement fails, the
\* handler logs the error and goes on.
BatchUpsertProduct(pr, b, named, p) ==
  IF ~named THEN pr
  ELSE IF pr[b].present
    THEN [pr EXCEPT ![b].price = IF p > 0 THEN p ELSE pr[b].price]
    ELSE [pr EXCEPT ![b] = [present |-> TRUE, price |-> p]]

\* lookup, UPCitemdb branch: ON CONFLICT DO UPDATE SET price = EXCLUDED.price
ReplaceProduct(pr, b, p) == [pr EXCEPT ![b] = [present |-> TRUE, price |-> p]]

\* lookup, Open Food Facts branch:
\* price = COALESCE(NULLIF(EXCLUDED.price, 0), products.price)
CoalesceProduct(pr, b, p) ==
  IF pr[b].present
    THEN [pr EXCEPT ![b].price = IF p # 0 THEN p ELSE pr[b].price]
    ELSE [pr EXCEPT ![b] = [present |-> TRUE, price |-> p]]

\* statements the lookup sends without awaiting them
PropagatedWrite(s, b, p, from, c) ==
  [kind |-> "propagated", store |-> s, barcode |-> b, price |-> p, from |-> from, conf |-> c]
ScanSave(s, b, p) ==
  [kind |-> "scan_save", store |-> s, barcode |-> b, price |-> p, from |-> NoStore, conf |-> NullConf]
ProductCache(mode, b, p) ==
  [kind |-> mode, store |-> NoStore, barcode |-> b, price |-> p, from |-> NoStore, conf |-> NullConf]

Queue(ws) == pending (+) ws
One(w) == SetToBag({w})

(***************************************************************************)
(* Store prices: the requests                                              *)
(***************************************************************************)
API_PRICE == 4
BatchPriceOf(s) == IF s = "T" THEN 5 ELSE 6
LookupStores == {"T", "S1", "O", NoStore}
BatchStores == {"T", "S1"}

\* what Open Food Facts and UPCitemdb answer
ApiOutcomes ==
  {[off |-> FALSE, item |-> FALSE, price |-> NoPrice],
   [off |-> FALSE, item |-> TRUE, price |-> NoPrice],
   [off |-> FALSE, item |-> TRUE, price |-> API_PRICE],
   [off |-> TRUE, item |-> FALSE, price |-> NoPrice],
   [off |-> TRUE, item |-> TRUE, price |-> API_PRICE]}

PIdle ==
  [pc |-> "idle", kind |-> "none", store |-> NoStore, barcode |-> "none",
   cached |-> FALSE, cachedPrice |-> NoPrice, ssp |-> NoPrice, sspConf |-> NullConf,
   named |-> FALSE, after |-> FALSE, hit |-> FALSE, resp |-> NoPrice, respConf |-> NullConf,
   facts |-> {}, prevStore |-> NoStore, prevResp |-> NoPrice, prevConf |-> NullConf,
   prevFacts |-> {}]

PBusy(q) == req[q].pc \notin {"idle", "done"}

\* a request arrives while fewer than MaxBacklog deferred statements wait
PFree(q) ==
  /\ ~PBusy(q)
  /\ pbudget > 0
  /\ BagCardinality(pending) < MaxBacklog
  /\ q <= conc
  /\ \A o \in Procs : o < q => PBusy(o)

\* the submitted (not propagated) price rows of a barcode
SubmittedRows(pr, b) == {row \in pr : row.barcode = b /\ row.source # "propagated"}

\* the reply; a lookup's record keeps the submitted rows it was answered over and
\* the answer of the lookup before it
PDone(r, price, c) ==
  [PIdle EXCEPT !.pc = "done", !.kind = r.kind, !.store = r.store, !.after = r.after,
                !.resp = price, !.respConf = c,
                !.facts = IF r.kind = "lookup" THEN SubmittedRows(prices, r.barcode) ELSE {},
                !.prevStore = r.prevStore, !.prevResp = r.prevResp,
                !.prevConf = r.prevConf, !.prevFacts = r.prevFacts]

\* lines 1138-1162: a cached product is answered at once, with the store
\* price and `confidence ?? 1.00`; otherwise the APIs are asked
Conclude(q, r) ==
  IF r.cached
    THEN req' = [req EXCEPT ![q] =
           PDone(r, IF r.ssp # NoPrice THEN r.ssp ELSE r.cachedPrice,
                    IF r.ssp # NoPrice /\ r.sspConf # NullConf THEN r.sspConf ELSE CONF_UNSET)]
    ELSE req' = [req EXCEPT ![q] = [r EXCEPT !.pc = "api"]]

\* SELECT * FROM products WHERE barcode = $1
LookupCached(q, s, b) ==
  /\ PFree(q)
  /\ req' = [req EXCEPT ![q] =
       [PIdle EXCEPT !.pc = IF s = NoStore THEN "fallback" ELSE "exact",
                     !.kind = "lookup", !.store = s, !.barcode = b,
                     !.cached = products[b].present,
                     !.cachedPrice = products[b].price,
                     !.after = (s # NoStore /\ direct[s] # NoPrice),
                     !.hit = \E row \in PriceRowsOf(prices, s, b) : row.from # NoStore,
                     !.prevStore = IF req[q].pc = "done" /\ req[q].kind = "lookup"
                                     THEN req[q].store ELSE NoStore,
                     !.prevResp = req[q].resp, !.prevConf = req[q].respConf,
                     !.prevFacts = req[q].facts]]
  /\ pbudget' = pbudget - 1
  /\ UNCHANGED <<prices, products, pending, geo, direct, lvars, now, conc>>

\* first: exact store match
LookupExact(q) ==
  LET r == req[q]
      rows == PriceRowsOf(prices, r.store, r.barcode)
  IN /\ r.pc = "exact"
     /\ IF rows # {}
          THEN \E row \in rows : Conclude(q, [r EXCEPT !.ssp = row.price, !.sspConf = row.conf])
          ELSE req' = [req EXCEPT ![q].pc = "nearby"]
     /\ UNCHANGED <<prices, products, pending, geo, direct, pbudget, lvars, now, conc>>

\* step 2: same-chain nearby store, with the decayed confidence
LookupNearby(q) ==
  LET r == req[q]
      rows == NearbyChain(prices, geo, r.store, r.barcode, now)
  IN /\ r.pc = "nearby"
     /\ IF rows = {}
          THEN /\ req' = [req EXCEPT ![q].pc = "fallback"]
               /\ UNCHANGED pending
          ELSE \E row \in rows :
                 LET confidence == Band(DistKm(geo, r.store, row.store))
                 IN IF confidence > 0
                      THEN /\ pending' = Queue(One(PropagatedWrite(r.store, r.barcode,
                                                     row.price, row.store, confidence)))
                           /\ Conclude(q, [r EXCEPT !.ssp = row.price])
                      ELSE /\ req' = [req EXCEPT ![q].pc = "fallback"]
                           /\ UNCHANGED pending
     /\ UNCHANGED <<prices, products, geo, direct, pbudget, lvars, now, conc>>

\* step 3: the most recent price from any store
LookupFallback(q) ==
  LET r == req[q]
      rows == AnyStore(prices, r.barcode)
  IN /\ r.pc = "fallback"
     /\ IF rows = {}
          THEN Conclude(q, r)
          ELSE \E row \in rows : Conclude(q, [r EXCEPT !.ssp = row.price, !.sspConf = row.conf])
     /\ UNCHANGED <<prices, products, pending, geo, direct, pbudget, lvars, now, conc>>

\* lines 1164-1339: Open Food Facts, then UPCitemdb; the product is cached
\* and its price saved for the store by statements that are not awaited
LookupApi(q, o) ==
  LET r == req[q]
      apiPrice == IF o.item THEN o.price ELSE NoPrice
      price == IF o.off /\ apiPrice = NoPrice /\ r.ssp # NoPrice THEN r.ssp ELSE apiPrice
      cache == IF o.off THEN One(ProductCache("product_coalesce", r.barcode, apiPrice))
               ELSE One(ProductCache("product_replace", r.barcode, apiPrice))
      save == IF r.store # NoStore /\ price > 0
                THEN One(ScanSave(r.store, r.barcode, price))
                ELSE EmptyBag
  IN /\ r.pc = "api"
     /\ IF ~o.off /\ ~o.item
          THEN /\ req' = [req EXCEPT ![q] = PDone(r, NoPrice, NullConf)]
               /\ UNCHANGED pending
          ELSE /\ pending' = Queue(cache (+) save)
               /\ req' = [req EXCEPT ![q] = PDone(r, price, NullConf)]
     /\ UNCHANGED <<prices, products, geo, direct, pbudget, lvars, now, conc>>

\* batch-price, first statement of a product: the products upsert
BatchProducts(q, s, b, named) ==
  /\ PFree(q)
  /\ products' = BatchUpsertProduct(products, b, named, BatchPriceOf(s))
  /\ req' = [req EXCEPT ![q] =
       [PIdle EXCEPT !.pc = "b_price", !.kind = "batch", !.store = s, !.barcode = b]]
  /\ pbudget' = pbudget - 1
  /\ UNCHANGED <<prices, pending, geo, direct, lvars, now, conc>>

\* batch-price, second statement: the store_prices upsert, and the reply
BatchPrice(q) ==
  LET r == req[q]
      p == BatchPriceOf(r.store)
      over == \E row \in PriceRowsOf(prices, r.store, r.barcode) : row.source = "propagated"
  IN /\ r.pc = "b_price"
     /\ prices' = UpsertPrice(prices, r.store, r.barcode, p, "walk_scan", now)
     /\ direct' = IF over \/ direct[r.store] # NoPrice
                    THEN [direct EXCEPT ![r.store] = p]
                    ELSE direct
     /\ req' = [req EXCEPT ![q] = PDone(r, p, NullConf)]
     /\ UNCHANGED <<products, pending, geo, pbudget, lvars, now, conc>>

\* the database executes one of the statements that were not awaited
RunPending(w) ==
  /\ BagIn(w, pending)
  /\ pending' = pending (-) One(w)
  /\ CASE w.kind = "propagated" ->
            /\ prices' = InsertPropagated(prices, w.store, w.barcode, w.price, w.from, w.conf, now)
            /\ UNCHANGED products
       [] w.kind = "scan_save" ->
            /\ prices' = UpsertPrice(prices, w.store, w.barcode, w.price, "barcode_scan", now)
            /\ UNCHANGED products
       [] w.kind = "product_replace" ->
            /\ products' = ReplaceProduct(products, w.barcode, w.price)
            /\ UNCHANGED prices
       [] w.kind = "product_coalesce" ->
            /\ products' = CoalesceProduct(products, w.barcode, w.price)
            /\ UNCHANGED prices
  /\ UNCHANGED <<req, geo, direct, pbudget, lvars, now, conc>>

(***************************************************************************)
(* Store prices: the prices a run starts from, as batch-price left them    *)
(***************************************************************************)
\* price runs start one tick before the clock stops; a price submitted
\* SeedOldAge hours earlier stops being fresh at that tick
PriceStart == StartNow + (MaxTicks - 1) * TickHours
SeedOldAge == FRESH_HOURS - TickHours
SeedNewAge == TickHours

SeedPrice(ps, s, p, age) == UpsertPrice(ps, s, "b1", p, "walk_scan", PriceStart - age)

Siblings == SeedPrice(SeedPrice({}, "S1", 2, SeedOldAge), "S2", 3, SeedNewAge)
OtherChain == SeedPrice({}, "O", 2, SeedNewAge)
FarOnly == SeedPrice({}, "S2", 3, SeedNewAge)

\* the prices and the geography a run starts from
PriceSeeds ==
  {<<{}, Geo(10, 0 - 10)>>, <<OtherChain, Geo(10, 0 - 10)>>, <<Siblings, Geo(10, 0 - 10)>>,
   <<Siblings, Geo(16, 48)>>, <<Siblings, Geo(17, 49)>>, <<Siblings, Geo(160, 161)>>,
   <<FarOnly, Geo(10, 40)>>}

NoRequests == [p \in Procs |-> PIdle]

StartPrices(ps, g, b) ==
  /\ prices = ps
  /\ products = [c \in Barcodes |-> NoProduct]
  /\ req = NoRequests
  /\ pending = EmptyBag
  /\ geo = g
  /\ direct = [s \in PriceStores |-> NoPrice]
  /\ pbudget = b

NoPrices == StartPrices({}, Geo(10, 0 - 10), 0)

(***************************************************************************)
(* POST /redeem (routes/rewards.js)                                        *)
(***************************************************************************)
\* pointsCost of two catalog entries: '$1 Off Coupon' and 'Free Delivery'
COST_COUPON == 100
COST_DELIVERY == 200
PointsCosts == {COST_COUPON, COST_DELIVERY}

\* balances a user may have earned before
StartBalances == {0, COST_COUPON, COST_COUPON + COST_DELIVERY}

RIdle == [pc |-> "idle", cost |-> 0, status |-> 0]

\* no user_rewards row, no redeem request
NoRewards ==
  [present |-> FALSE, balance |-> 0, redeemed |-> 0, guarded |-> FALSE,
   slots |-> [p \in Procs |-> RIdle], budget |-> 0]

\* the user's row; `guarded` says whether the table (its DDL is not part of the
\* sources) rejects a negative current_balance
StartRewards(present, bal, guarded) ==
  [NoRewards EXCEPT !.present = present, !.balance = bal, !.guarded = guarded,
                    !.budget = MaxRedeems]

RFree(p) ==
  /\ rw.slots[p].pc \in {"idle", "done"}
  /\ rw.budget > 0
  /\ \A o \in Procs : o < p => rw.slots[o].pc = "deduct"

\* SELECT current_balance ...; 400 'Insufficient points' without a row or with
\* current_balance < pointsCost
RedeemCheck(p, cost) ==
  /\ RFree(p)
  /\ rw' = [rw EXCEPT
              !.budget = @ - 1,
              !.slots[p] = IF ~rw.present \/ rw.balance < cost
                             THEN [RIdle EXCEPT !.pc = "done", !.status = 400]
                             ELSE [RIdle EXCEPT !.pc = "deduct", !.cost = cost]]
  /\ UNCHANGED <<db, proc, now, budget, conc, prices, products, req, pending, geo, direct, pbudget>>

\* UPDATE user_rewards SET current_balance = current_balance - $2, ...; a table
\* that rejects the new balance makes the statement throw: the catch answers 500
RedeemDeduct(p) ==
  LET r == rw.slots[p]
  IN /\ r.pc = "deduct"
     /\ IF rw.guarded /\ rw.balance - r.cost < 0
          THEN rw' = [rw EXCEPT !.slots[p] = [RIdle EXCEPT !.pc = "done", !.status = 500]]
          ELSE rw' = [rw EXCEPT !.balance = @ - r.cost, !.redeemed = @ + r.cost,
                                !.slots[p] = [RIdle EXCEPT !.pc = "done", !.status = 200]]
     /\ UNCHANGED <<db, proc, now, budget, conc, prices, products, req, pending, geo, direct, pbudget>>

StartAt(t, d, c, b) ==
  /\ rw = NoRewards
  /\ db = d
  /\ proc = [p \in Procs |-> Idle]
  /\ now = t
  /\ budget = b
  /\ conc = c

Start(d, c, b) == StartAt(StartNow, d, c, b)

\* an unmapped store, requests overlapping
InitLayout == Start(EmptyDB, 2, MaxOps) /\ NoPrices

\* a store mapped earlier, requests overlapping
InitSeeded == (\E d \in Seeds : Start(d, 2, MaxOps)) /\ NoPrices

\* a store with several aisles, requests overlapping
InitListing == Start(SeedAisles, 2, MaxOps) /\ NoPrices

\* an unmapped store, one request after the other
InitSeq == Start(EmptyDB, 1, MaxSeqOps) /\ NoPrices

LayoutNext ==
  \/ \E p \in Procs, u \in Users, s \in Stores, n \in AisleNumbers, depts \in DeptLists,
        pos \in Positions :
       ManualSelect(p, u, s, n, depts, pos)
  \/ \E p \in Procs : ManualCommit(p)
  \/ \E p \in Procs, u \in Users, s \in Stores, n \in AisleNumbers, depts \in ScanDeptLists :
       ScanCommit(p, u, s, n, depts)
  \/ \E p \in Procs, u \in Users, s \in Stores, a \in AisleIds, depts \in DeptLists :
       ConfirmCheck(p, u, s, a, depts)
  \/ \E p \in Procs : ConfirmCommit(p)
  \/ \E p \in Procs, u \in Users, s \in Stores, a \in AisleIds, c \in CorrectData :
       ReportCommit(p, u, s, a, c.has, c.depts)
  \/ \E p \in Procs : Award(p)
  \/ \E p \in Procs : BonusCheck(p)
  \/ \E p \in Procs : BonusAward(p)
  \/ \E p \in Procs : Finish(p)
  \/ Tick

PriceNext ==
  \/ \E q \in Procs, s \in LookupStores, b \in Barcodes : LookupCached(q, s, b)
  \/ \E q \in Procs : LookupExact(q)
  \/ \E q \in Procs : LookupNearby(q)
  \/ \E q \in Procs : LookupFallback(q)
  \/ \E q \in Procs, o \in ApiOutcomes : LookupApi(q, o)
  \/ \E q \in Procs, s \in BatchStores, b \in Barcodes, named \in BOOLEAN :
       BatchProducts(q, s, b, named)
  \/ \E q \in Procs : BatchPrice(q)
  \/ \E w \in BagToSet(pending) : RunPending(w)
  \/ Tick

\* price requests only, overlapping, over prices submitted earlier
InitPrice ==
  /\ StartAt(PriceStart, EmptyDB, 2, 0)
  /\ \E seed \in PriceSeeds : StartPrices(seed[1], seed[2], MaxPriceOps)

\* a lookup after a price submission that overlapped an earlier lookup
InitPriceLong ==
  /\ StartAt(PriceStart, EmptyDB, 2, 0)
  /\ StartPrices(Siblings, Geo(16, 48), MaxPriceOps + 1)

\* layout requests, price requests, or one of each
Init ==
  \/ InitLayout
  \/ InitPrice
  \/ Start(EmptyDB, 2, 1) /\ StartPrices({}, Geo(10, 0 - 10), 1)

\* the layout routes over a database whose statements may fail
FaultyNext ==
  \/ LayoutNext
  \/ \E p \in Procs, stage \in FailStages : AwardFails(p, stage)

\* redeem requests of one user, overlapping
InitRewards ==
  /\ db = EmptyDB
  /\ proc = [p \in Procs |-> Idle]
  /\ now = StartNow
  /\ budget = 0
  /\ conc = 2
  /\ NoPrices
  /\ \E present \in BOOLEAN, bal \in StartBalances, guarded \in BOOLEAN :
       /\ (~present => bal = 0 /\ ~guarded)
       /\ rw = StartRewards(present, bal, guarded)

RewardsNext ==
  \/ \E p \in Procs, cost \in PointsCosts : RedeemCheck(p, cost)
  \/ \E p \in Procs : RedeemDeduct(p)

Next == LayoutNext \/ PriceNext

Spec == Init /\ [][Next]_vars
SpecLayout == InitLayout /\ [][LayoutNext]_vars
SpecSeeded == InitSeeded /\ [][LayoutNext]_vars
SpecSeq == InitSeq /\ [][LayoutNext]_vars
SpecFaulty == InitLayout /\ [][FaultyNext]_vars
SpecListing == InitListing /\ [][LayoutNext]_vars
SpecRewards == InitRewards /\ [][RewardsNext]_vars
SpecPrice == InitPrice /\ [][PriceNext]_vars
SpecPriceLong == InitPriceLong /\ [][PriceNext]_vars

(***************************************************************************)
(* Properties                                                              *)
(***************************************************************************)
Quiet == \A p \in Procs : ~Busy(p)

\* number of rows of a table (a bag) that satisfy Test
CountRows(bag, Test(_)) ==
  BagCardinality([r \in {x \in BagToSet(bag) : Test(x)} |-> bag[r]])

\* C1: after any sequence and interleaving of manual, scan, confirm and report
\* contributions, every aisle and every aisle-department confidence is in [0, 100].
C1_ClampInvariant ==
  /\ \A a \in db.aisles : CONFIDENCE_MIN <= a.conf /\ a.conf <= CONFIDENCE_MAX
  /\ \A r \in db.depts : CONFIDENCE_MIN <= r.conf /\ r.conf <= CONFIDENCE_MAX

\* a contribution has pushed an aisle and a department against the upper end
C1_Witness ==
  /\ budget < MaxOps
  /\ \E a \in db.aisles : a.conf = CONFIDENCE_MAX
  /\ \E r \in db.depts : r.conf = CONFIDENCE_MAX

\* C2: two contributions running concurrently against the same (store, aisle
\* number) both complete successfully, and the stored verifiedCount and confidence
\* are those of applying both deltas in some order (no contribution of an unmapped
\* store is clamped within MaxOps requests).
C2_NoLostUpdates ==
  /\ \A p \in Procs : proc[p].status # 500
  /\ \A a \in db.aisles :
       LET n(type) == CountRows(db.contribs, LAMBDA c : c.aisle = a.id /\ c.type = type)
           deltas == CONFIDENCE_INCREMENT * n("manual")
                       + (CONFIDENCE_INCREMENT + SCAN_EXTRA_INCREMENT) * n("scan")
                       + CONFIDENCE_INCREMENT * n("confirm")
                       - CONFIDENCE_DECREMENT * n("report")
       IN /\ a.vc = n("manual") + n("scan") + n("confirm")
          /\ \/ n("manual") > 0 /\ a.conf = CONFIDENCE_INITIAL - CONFIDENCE_INCREMENT + deltas
             \/ n("scan") > 0 /\ a.conf = CONFIDENCE_INITIAL + SCAN_EXTRA_INITIAL
                                            - (CONFIDENCE_INCREMENT + SCAN_EXTRA_INCREMENT) + deltas

\* C3: for every (contributor, store) pair at most one first-store bonus award is
\* recorded.
C3_BonusAtMostOnce ==
  \A u \in Users, s \in Stores :
    CountRows(db.ptx, LAMBDA t : t.user = u /\ t.store = s /\ t.reason = "first_store_bonus") <= 1

\* a confirm request of user u for aisle a arrives in this step at slot p
ConfirmArrives(p) ==
  /\ Free(p)
  /\ budget' = budget - 1
  /\ \A o \in Procs \ {p} : proc'[o] = proc[o]
  /\ proc'[p].kind = "confirm"
  /\ proc'[p].user \in Users

\* C4: a confirmation submitted by a contributor less than 24 hours after a
\* confirmation of the same contributor for the same aisle is rejected with the
\* rate-limit error and changes nothing in the tables.
C4_DuplicateConfirmRejected ==
  [][\A p \in Procs :
       (/\ ConfirmArrives(p)
        /\ \E c \in BagToSet(db.contribs) :
              /\ c.type = "confirm" /\ c.user = proc'[p].user
              /\ c.store = proc'[p].store /\ c.aisle = proc'[p].aisle
              /\ now - c.at < RATE_LIMIT_HOURS)
       => (proc'[p].pc = "done" /\ proc'[p].status = 429 /\ db' = db)]_vars

\* a confirmation has been rejected by the rate limit
C4_Witness == \E p \in Procs : proc[p].pc = "done" /\ proc[p].status = 429

\* the ledger holds exactly the contributions listed, each a <<type, user>>
LedgerIs(entries) ==
  /\ BagCardinality(db.contribs) = Len(entries)
  /\ \A i \in DOMAIN entries :
       CountRows(db.contribs, LAMBDA c : c.type = entries[i][1] /\ c.user = entries[i][2])
         = Cardinality({j \in DOMAIN entries : entries[j] = entries[i]})

Awarded(u, points, reason) ==
  CountRows(db.ptx, LAMBDA t : t.user = u /\ t.points = points /\ t.reason = reason)

BonusesOf(u) == CountRows(db.ptx, LAMBDA t : t.user = u /\ t.reason = "first_store_bonus")

OnlyAisleIs(conf, vc) ==
  \E a \in db.aisles : db.aisles = {a} /\ a.conf = conf /\ a.vc = vc

\* the example of an unmapped store: a scans, then b confirms, then c reports
ExampleSequence(afterScan, afterConfirm, afterReport) ==
  \A a \in Users : \A b \in Users \ {a}, c \in Users :
    /\ (Quiet /\ LedgerIs(<< <<"scan", a>> >>))
         => OnlyAisleIs(afterScan, 1) /\ Awarded(a, 50, "aisle_scan") = 1
    /\ (Quiet /\ LedgerIs(<< <<"scan", a>>, <<"confirm", b>> >>))
         => /\ OnlyAisleIs(afterConfirm, 2)
            /\ Awarded(b, 10, "aisle_confirm") = 1
            /\ BonusesOf(b) = 0
    /\ (Quiet /\ LedgerIs(<< <<"scan", a>>, <<"confirm", b>>, <<"report", c>> >>))
         => OnlyAisleIs(afterReport, 2) /\ Awarded(c, 15, "data_report") = 1

Queued(w) == pending' = pending (+) One(w)

\* the step executed the deferred statement w
Executed(w) == BagIn(w, pending) /\ pending' = pending (-) One(w)

\* the step is the chain-propagation query of the lookup in slot q
NearbyStep(q) == req[q].pc = "nearby" /\ req'[q].pc # "nearby"

\* the other stores of the target's chain whose price is at most 14 days old
EligibleSiblings(s, b) ==
  {r \in prices : /\ r.barcode = b
                  /\ r.store # s
                  /\ toLowerCase(SplitPart1(StoreName[r.store]))
                       = toLowerCase(SplitPart1(StoreName[s]))
                  /\ now - r.at < FRESH_HOURS}

Nearest(s, rows) ==
  {r \in rows : \A o \in rows : DistKm(geo, s, r.store) <= DistKm(geo, s, o.store)}

\* C5: once a price was submitted directly for a store that held a
\* propagated price, a lookup that starts afterwards and answers with a
\* price answers with a price submitted for that store (by batch-price or
\* found by the product APIs), never with one taken from another store.
C5_DirectBeatsPropagated ==
  \A q \in Procs :
    (req[q].pc = "done" /\ req[q].kind = "lookup" /\ req[q].after /\ req[q].resp # NoPrice)
      => req[q].resp \in {BatchPriceOf(req[q].store), API_PRICE}

\* C6: the deferred insert of a propagated price leaves every price row
\* that exists when it executes exactly as it was.
C6_PropagatedNeverOverwrites ==
  [][\A w \in BagToSet(pending) :
       (w.kind = "propagated" /\ Executed(w)) => \A r \in prices : r \in prices']_vars

\* a direct price stands untouched although a lookup of the same store
\* answered with the nearer sibling's price and its insert was executed
C6_Witness ==
  /\ geo["S1"] = 16
  /\ pending = EmptyBag
  /\ \E r \in prices : /\ r.store = "T" /\ r.source = "walk_scan"
                       /\ r.price = BatchPriceOf("T") /\ r.from = NoStore
  /\ \E q \in Procs : /\ req[q].pc = "done" /\ req[q].kind = "lookup"
                      /\ req[q].store = "T" /\ req[q].resp = 2

\* C7: the propagated confidence is 0.95 up to 16 km, 0.85 above 16 and up
\* to 48 km, 0.70 above 48 and up to 160 km; above 160 km nothing is
\* queued and the lookup goes on to the any-store fallback.
C7_DistanceBands ==
  [][\A q \in Procs :
       LET s == req[q].store
           near == Nearest(s, EligibleSiblings(s, req[q].barcode))
       IN (NearbyStep(q) /\ near # {}) =>
            \E r \in near :
              LET d == DistKm(geo, s, r.store)
              IN IF d > 160
                   THEN pending' = pending /\ req'[q].pc = "fallback"
                   ELSE \E w \in BagToSet(pending') :
                          /\ Queued(w)
                          /\ w.kind = "propagated" /\ w.store = s
                          /\ w.conf = IF d <= 16 THEN 95 ELSE IF d <= 48 THEN 85 ELSE 70]_vars

\* a price was propagated over exactly 160 km at 0.70, and after that
\* sibling went stale the next one, 161 km away, was refused
C7_Witness ==
  /\ \E w \in BagToSet(pending) :
       w.kind = "propagated" /\ w.conf = 70 /\ DistKm(geo, w.store, w.from) = 160
  /\ \E q \in Procs :
       LET near == Nearest("T", EligibleSiblings("T", "b1"))
       IN /\ req[q].pc = "fallback" /\ req[q].store = "T"
          /\ near # {}
          /\ \A r \in near : DistKm(geo, "T", r.store) = 161

\* C8: chain propagation takes the price of a nearest store among the
\* eligible siblings, and takes none when no sibling is eligible; a sibling
\* whose price is older than 14 days is not eligible.
C8_NearestFreshSibling ==
  [][\A q \in Procs :
       LET s == req[q].store
           eligible == EligibleSiblings(s, req[q].barcode)
       IN NearbyStep(q) =>
            /\ eligible = {} => pending' = pending
            /\ \A w \in BagToSet(pending') :
                 Queued(w) =>
                   \E r \in Nearest(s, eligible) : w.from = r.store /\ w.price = r.price]_vars

\* the nearer sibling's price had gone stale and the farther one was taken
C8_Witness ==
  \E r \in prices, o \in prices :
    /\ r.store = "T" /\ r.from = "S2" /\ r.source = "propagated"
    /\ o.store = "S1" /\ r.at - o.at >= FRESH_HOURS
    /\ DistKm(geo, "T", "S1") < DistKm(geo, "T", "S2")

\* C10: at most one aisle per (store, aisle number), one department per
\* (aisle, department name) and one price per (store, barcode).
C10_OneFactPerSubject ==
  /\ \A a \in db.aisles, o \in db.aisles : (a.store = o.store /\ a.num = o.num) => a = o
  /\ \A a \in db.depts, o \in db.depts : (a.aisle = o.aisle /\ a.name = o.name) => a = o
  /\ \A a \in prices, o \in prices : (a.store = o.store /\ a.barcode = o.barcode) => a = o

\* a second contribution for an aisle and its department merged into the rows
C10_Witness ==
  /\ \E a \in db.aisles : a.vc = 2
  /\ \E r \in db.depts : r.vc = 2

(***************************************************************************)
(* Reports, propagated confidence and sources, the listing, badges         *)
(***************************************************************************)
\* the step is the arrival of a report in slot p
ReportArrives(p) ==
  /\ Free(p)
  /\ budget' = budget - 1
  /\ proc'[p].kind = "report"
  /\ \A o \in Procs \ {p} : proc'[o] = proc[o]

\* C11: a report leaves the verified count of every aisle and of every
\* department as it was, also of a department that the replacement data
\* names and that already existed.
C11_ReportKeepsVerifiedCount ==
  [][\A p \in Procs :
       ReportArrives(p) =>
         /\ \A a \in db.aisles : \E b \in db'.aisles : b.id = a.id /\ b.vc = a.vc
         /\ \A a \in db.depts : \E b \in db'.depts : b.id = a.id /\ b.vc = a.vc]_vars

\* a stored confidence as it is read: NULL counts as 1.00
ConfOf(row) == IF row.conf = NullConf THEN 100 ELSE row.conf

\* the multiplier of a distance within reach, in hundredths
ClaimMultiplier(d) == IF d <= 16 THEN 95 ELSE IF d <= 48 THEN 85 ELSE 70

\* C12: the confidence of a propagated price is the confidence of the
\* sibling's price it was copied from times the multiplier of the distance,
\* and so never above the sibling's.
C12_ScaledFromSource ==
  \A r \in prices :
    r.from # NoStore =>
      \A o \in PriceRowsOf(prices, r.from, r.barcode) :
        /\ 100 * r.conf = ConfOf(o) * ClaimMultiplier(DistKm(geo, r.store, r.from))
        /\ r.conf <= ConfOf(o)

\* C13: the sibling price that chain propagation copies is not itself a
\* propagated one.
C13_SourceIsDirect ==
  [][\A q \in Procs :
       NearbyStep(q) =>
         \A w \in BagToSet(pending') :
           Queued(w) =>
             \A o \in PriceRowsOf(prices, w.from, w.barcode) : o.source # "propagated"]_vars

\* C14: among the eligible siblings at the smallest distance, chain
\* propagation copies from one whose price was updated last.
C14_TieByMostRecent ==
  [][\A q \in Procs :
       NearbyStep(q) =>
         \A w \in BagToSet(pending') :
           Queued(w) =>
             \A r \in Nearest(req[q].store, EligibleSiblings(req[q].store, req[q].barcode)) :
               \E o \in PriceRowsOf(prices, w.from, w.barcode) : o.at >= r.at]_vars

\* the step is the any-store query of the lookup that slot q serves for a store
FallbackStep(q) ==
  req[q].pc = "fallback" /\ req'[q].pc # "fallback" /\ req[q].store # NoStore

\* the prices of the barcode that were not written by propagation, and the
\* ones among them updated last
DirectFacts(b) == {r \in prices : r.barcode = b /\ r.source # "propagated"}
LatestOf(rows) == {r \in rows : \A o \in rows : r.at >= o.at}

\* C15: when the store has no price and chain propagation gave none, the
\* lookup takes the price and the own confidence of the most recently
\* updated price of any store that is not a propagated one.
C15_FallbackIsDirect ==
  [][\A q \in Procs :
       (FallbackStep(q) /\ DirectFacts(req[q].barcode) # {}) =>
         \E best \in LatestOf(DirectFacts(req[q].barcode)) :
           IF req'[q].pc = "done"
             THEN req'[q].resp = best.price /\ req'[q].respConf = ConfOf(best)
             ELSE req'[q].ssp = best.price /\ req'[q].sspConf = best.conf]_vars

\* the step added a copy of w to the deferred statements
Added(w) == CopiesIn(w, pending') > CopiesIn(w, pending)

\* C16: a lookup that starts when a propagated price is stored for its store
\* and barcode runs no sibling search and sends no statement that writes to
\* store_prices.
C16_ComputedOnce ==
  [][\A q \in Procs :
       (req[q].kind = "lookup" /\ req[q].hit /\ PBusy(q) /\ req'[q] # req[q]) =>
         /\ req'[q].pc # "nearby"
         /\ \A w \in BagToSet(pending') :
              Added(w) => w.kind \notin {"propagated", "scan_save"}]_vars

\* the request in slot p has committed its transaction
Committed(p) == proc[p].pc \in {"award", "bonus_check", "bonus_award", "finish"}

\* C17: a contribution whose transaction has committed is answered with a
\* success status, also when a statement of the points award fails.
C17_PointsFailureIsPartialSuccess ==
  [][\A p \in Procs :
       (Committed(p) /\ proc'[p].pc = "done") => proc'[p].status \in {200, 201}]_vars

\* C18: the layout listing of a store never shows an aisle whose confidence is
\* below 20, nor a department mapping whose confidence is below 20
C18_ListingHidesLowConfidence ==
  \A s \in Stores, coll \in Collations :
    LET listing == GetLayout(db, s, coll)
    IN \A i \in 1..Len(listing) :
         /\ listing[i].confidence >= 20
         /\ \A j \in 1..Len(listing[i].departments) :
              listing[i].departments[j].confidence >= 20

\* the listing of store s, read aisle by aisle, keeps to the code's ORDER BY
InListedOrder(s, coll) ==
  LET listing == GetLayout(db, s, coll)
      AisleBefore(a, b) ==
        \/ a.positionIndex # NoPos /\ (b.positionIndex = NoPos \/ a.positionIndex < b.positionIndex)
        \/ /\ a.positionIndex = b.positionIndex
           /\ TextBefore(coll, DigitsOf[a.aisleNumber], DigitsOf[b.aisleNumber])
  IN \A i \in 1..Len(listing) :
       /\ \A j \in (i + 1)..Len(listing) : AisleBefore(listing[i], listing[j])
       /\ LET held == listing[i].departments
          IN \A k \in 1..Len(held), l \in 1..Len(held) :
               k < l => TextBefore(coll, held[k].name, held[l].name)

C20_BadgeHeldOnce ==
  \A row \in BagToSet(db.badges) : CopiesIn(row, db.badges) <= 1

\* C21: after a report that carries replacement departments, each replacement
\* department of the reported aisle has confidence exactly the initial value 50,
\* newly created or already there
C21_ReplacementAtInitial ==
  [][\A p \in Procs :
       (ReportArrives(p) /\ proc'[p].pc = "award" /\ proc'[p].has)
       => \A i \in 1..Len(proc'[p].depts) :
            \A r \in db'.depts :
              (r.aisle = proc'[p].aisle /\ r.name = toLowerCase(proc'[p].depts[i]))
                => r.conf = CONFIDENCE_INITIAL]_vars

\* this step commits a contribution of one of the given types
Contributes(types) ==
  \E c \in BagToSet(db'.contribs) :
    c.type \in types /\ CopiesIn(c, db'.contribs) > CopiesIn(c, db.contribs)

\* C22: one confirmation or one manual submission raises the verified count of
\* the aisle and of each department it touches by at most 1 and the confidence
\* by at most 5, also when its department list names a department twice
C22_TouchedAtMostOnce ==
  [][Contributes({"manual", "confirm"}) =>
       /\ \A a \in db.aisles : \A b \in db'.aisles :
            b.id = a.id => (b.vc <= a.vc + 1 /\ b.conf <= a.conf + CONFIDENCE_INCREMENT)
       /\ \A r \in db.depts : \A q \in db'.depts :
            q.id = r.id => (q.vc <= r.vc + 1 /\ q.conf <= r.conf + CONFIDENCE_INCREMENT)]_vars

\* C23: the ledger never holds two confirmations of one contributor for one
\* aisle created less than 24 hours apart, whatever the interleaving
C23_OneConfirmPerWindow ==
  \A c \in BagToSet(db.contribs), e \in BagToSet(db.contribs) :
    (/\ c.type = "confirm" /\ e.type = "confirm"
     /\ c.user = e.user /\ c.store = e.store /\ c.aisle = e.aisle
     /\ c.at <= e.at /\ e.at - c.at < RATE_LIMIT_HOURS)
    => (c = e /\ CopiesIn(c, db.contribs) = 1)

\* C24: a lookup that follows a lookup for the same (store, barcode), with the
\* submitted prices unchanged in between and both answered from the stored
\* product, reports the same price and the same confidence as that lookup
C24_RepeatedLookupAgrees ==
  \A q \in Procs :
    LET r == req[q]
    IN (/\ r.pc = "done" /\ r.kind = "lookup"
        /\ r.store # NoStore /\ r.prevStore = r.store
        /\ r.prevFacts = r.facts
        /\ r.respConf # NullConf /\ r.prevConf # NullConf)
       => (r.resp = r.prevResp /\ r.respConf = r.prevConf)

\* C25: a stored price whose source is not 'propagated' carries no propagation
\* data: no propagated-from store and no distance-band confidence
C25_DirectCarriesNoPropagation ==
  \A row \in prices :
    row.source # "propagated" =>
      (row.from = NoStore /\ row.conf \notin {CONF_NEAR, CONF_MID, CONF_FAR})

\* the contributors who hold a first-store bonus award for store s
BonusHolders(s) ==
  {u \in Users : \E t \in BagToSet(db.ptx) :
                   t.user = u /\ t.store = s /\ t.reason = "first_store_bonus"}

\* C26: for any store, all first-store bonus awards go to a single contributor,
\* whatever the interleaving of the submissions
C26_BonusToOneContributor == \A s \in Stores : Cardinality(BonusHolders(s)) <= 1

\* a contributor holds the bonus of a store that another contributor has also
\* mapped by a manual or scan submission
C26_Witness ==
  \E s \in Stores, u \in Users, o \in Users :
    /\ u # o
    /\ u \in BonusHolders(s)
    /\ \E c \in BagToSet(db.contribs) :
         c.user = o /\ c.store = s /\ c.type \in {"manual", "scan"}
    /\ \A p \in Procs : ~Busy(p)

\* the ledger rows this step adds
AddedContributions ==
  {c \in BagToSet(db'.contribs) : CopiesIn(c, db'.contribs) > CopiesIn(c, db.contribs)}

\* C27: the fact change and the ledger entry of a contribution are committed
\* together or not at all: a step that changes an aisle or a department adds
\* exactly one ledger row, and a step that adds a ledger row applies that
\* contribution's change to the aisle the row names
C27_FactAndLedgerTogether ==
  [][/\ (db'.aisles # db.aisles \/ db'.depts # db.depts \/ db'.contribs # db.contribs)
          => /\ Cardinality(AddedContributions) = 1
             /\ BagCardinality(db'.contribs) = BagCardinality(db.contribs) + 1
     /\ \A c \in AddedContributions :
          \E b \in db'.aisles :
            /\ b.id = c.aisle /\ b.store = c.store
            /\ IF c.type = "report"
                 THEN \E a \in db.aisles :
                        /\ a.id = b.id /\ b.vc = a.vc
                        /\ b.conf = Greatest(a.conf - CONFIDENCE_DECREMENT, CONFIDENCE_MIN)
                 ELSE \/ \E a \in db.aisles : a.id = b.id /\ b.vc = a.vc + 1 /\ b.conf >= a.conf
                      \/ b.vc = 1 /\ \A a \in db.aisles : a.id # b.id]_vars

\* a report has been committed on an aisle created by an earlier submission, and
\* a request has been answered with an error
C27_Witness ==
  /\ \E a \in db.aisles :
       /\ a.conf = CONFIDENCE_INITIAL - CONFIDENCE_DECREMENT
       /\ \E c \in BagToSet(db.contribs) : c.type = "report" /\ c.aisle = a.id
  /\ \E p \in Procs : proc[p].pc = "done" /\ proc[p].status = 500

\* C28: once every request has been answered, the contributions count stored for
\* a contributor equals the number of that contributor's ledger entries; a
\* first-store bonus award is not a contribution
C28_CountIsContributions ==
  Quiet =>
    \A u \in Users :
      (IF db.upoints[u].present THEN db.upoints[u].count ELSE 0)
        = CountRows(db.contribs, LAMBDA c : c.user = u)

\* C29: a contributor whose first and only contribution so far is a manual or a
\* scan submission holds the First Explorer badge once the request is answered,
\* with or without the first-store bonus
C29_FirstExplorerOnFirstContribution ==
  Quiet =>
    \A u \in Users :
      (/\ CountRows(db.contribs, LAMBDA c : c.user = u) = 1
       /\ \E c \in BagToSet(db.contribs) : c.user = u /\ c.type \in {"manual", "scan"})
      => \E b \in BagToSet(db.badges) : b.user = u /\ b.type = "first_explorer"

\* C30: under any interleaving of redeem requests for one user the current
\* points balance is never negative
C30_BalanceNeverNegative == rw.balance >= 0
====
